---- MODULE Spec2Model ----
(***************************************************************************)
(* noddi_wholebrain.py: whole-brain NODDI metrics from noddi_reg ROI       *)
(* tables.  The module-level template read, get_wholebrain_noddi and main  *)
(* are modelled; main is cut at the places where it touches the file       *)
(* system (reads, one loop iteration per participant, one write per        *)
(* parcellation group).                                                    *)
(*                                                                         *)
(* Numbers: metric means are integers in hundredths (0.35 is 35); a        *)
(* quotient is an exact fraction [num, den] in lowest terms, NaN is 0/0    *)
(* and inf is 1/0, which is what numpy's float division returns for a      *)
(* zero divisor (a RuntimeWarning, no exception).                          *)
(* Strings that the program takes apart (participant identifiers) are      *)
(* sequences of one-character strings.                                     *)
(***************************************************************************)
EXTENDS Integers, Sequences, FiniteSets, TLC

VARIABLES
    template_tsv,             \* the reference table file at the fixed path (line 36)
    participants_tsv,         \* the roster file named by --participants_tsv
    noddireg_layout,          \* the files indexed under --noddi_reg_dir
    output_dir,               \* the files written under --output_dir: path -> csv
    freesurfer_tissue_types,  \* module global (lines 35-38)
    participants_list,        \* main, line 84
    idx,                      \* number of roster entries the loop at line 88 has consumed
    subject,                  \* main, line 90
    parc_files,               \* main, line 91 (get_wholebrain_noddi's argument)
    wb_noddi_list,            \* main, line 104 (get_wholebrain_noddi's result)
    all_participant_results,  \* main, line 87
    log,                      \* what logger.error has emitted
    groups,                   \* group keys the loop at line 115 has still to write
    pc,                       \* position in the program
    error                     \* the exception that ended the run, "none" otherwise

vars == <<template_tsv, participants_tsv, noddireg_layout, output_dir,
          freesurfer_tissue_types, participants_list, idx, subject, parc_files,
          wb_noddi_list, all_participant_results, log, groups, pc, error>>

(***************************************************************************)
(* Bounds of the model.                                                    *)
(***************************************************************************)
MaxRoster == 2
MaxFiles == 2
MaxRows == 2

SeqsUpTo(S, n) == UNION {[1..k -> S] : k \in 0..n}

(***************************************************************************)
(* Floating-point values.                                                  *)
(***************************************************************************)
NaN == [num |-> 0, den |-> 0]
Inf == [num |-> 1, den |-> 0]

RECURSIVE Gcd(_, _)
Gcd(a, b) == IF b = 0 THEN a ELSE Gcd(b, a % b)

\* a / b for a >= 0, b >= 0, as numpy divides: 0/0 is nan, x/0 is inf.
Div(a, b) ==
    IF b = 0
    THEN (IF a = 0 THEN NaN ELSE Inf)
    ELSE LET g == Gcd(a, b) IN [num |-> a \div g, den |-> b \div g]

(***************************************************************************)
(* pandas operations used by get_wholebrain_noddi.                         *)
(***************************************************************************)
\* The right-hand rows of a merge that match one left row, right order kept.
RECURSIVE Matches(_, _)
Matches(row, right) ==
    IF right = <<>> THEN <<>>
    ELSE LET rest == Matches(row, Tail(right)) IN
         IF Head(right).name = row.name
         THEN <<[name |-> row.name, od_mean |-> row.od_mean,
                 icvf_mean |-> row.icvf_mean, isovf_mean |-> row.isovf_mean,
                 n_vx_masked |-> row.n_vx_masked,
                 tissue_type |-> Head(right).tissue_type]>> \o rest
         ELSE rest

\* parc_df.merge(right, how="left") on the common column "name": every left
\* row once per matching right row, or once with a missing tissue_type.
RECURSIVE Merge(_, _)
Merge(parc_df, right) ==
    IF parc_df = <<>> THEN <<>>
    ELSE LET row == Head(parc_df)
             m == Matches(row, right)
         IN (IF m = <<>>
             THEN <<[name |-> row.name, od_mean |-> row.od_mean,
                     icvf_mean |-> row.icvf_mean, isovf_mean |-> row.isovf_mean,
                     n_vx_masked |-> row.n_vx_masked, tissue_type |-> "NaN"]>>
             ELSE m) \o Merge(Tail(parc_df), right)

IsGM(row) == row.tissue_type = "GM"

\* lines 49-51: the frame the sums are taken over.
Retained(desc, parc_df, tissue_types) ==
    IF desc = "aparcaseg"
    THEN SelectSeq(Merge(parc_df, tissue_types), IsGM)
    ELSE parc_df

\* parc_df["n_vx_masked"].sum()
RECURSIVE ColumnSum(_)
ColumnSum(parc_df) ==
    IF parc_df = <<>> THEN 0
    ELSE Head(parc_df).n_vx_masked + ColumnSum(Tail(parc_df))

\* (parc_df[col] * parc_df["n_vx_masked"]).sum()
RECURSIVE WeightedSum(_, _)
WeightedSum(parc_df, col) ==
    IF parc_df = <<>> THEN 0
    ELSE Head(parc_df)[col] * Head(parc_df).n_vx_masked
         + WeightedSum(Tail(parc_df), col)

\* Metrics with whole_icvf taken from the od_mean column
Metrics_SwappedColumn(parc_file, tissue_types) ==
    LET desc == parc_file.desc
        parc_df == Retained(desc, parc_file.df, tissue_types)
        total_vx == ColumnSum(parc_df)
    IN [parcellation |-> desc,
        whole_od |-> Div(WeightedSum(parc_df, "od_mean"), total_vx),
        whole_icvf |-> Div(WeightedSum(parc_df, "od_mean"), total_vx),
        whole_isovf |-> Div(WeightedSum(parc_df, "isovf_mean"), total_vx)]

\* lines 45-62: the metrics dict of one parc_file.
Metrics(parc_file, tissue_types) ==
    LET desc == parc_file.desc
        parc_df == Retained(desc, parc_file.df, tissue_types)
        total_vx == ColumnSum(parc_df)
    IN [parcellation |-> desc,
        whole_od |-> Div(WeightedSum(parc_df, "od_mean"), total_vx),
        whole_icvf |-> Div(WeightedSum(parc_df, "icvf_mean"), total_vx),
        whole_isovf |-> Div(WeightedSum(parc_df, "isovf_mean"), total_vx)]

\* lines 42-65
get_wholebrain_noddi(files, tissue_types) ==
    [i \in 1..Len(files) |-> Metrics(files[i], tissue_types)]

(***************************************************************************)
(* Strings.                                                                *)
(***************************************************************************)
SubPrefix == <<"s", "u", "b", "-">>

\* participant.replace("sub-", ""): every non-overlapping occurrence, left to right.
RECURSIVE Replace(_)
Replace(s) ==
    IF Len(s) < Len(SubPrefix) THEN s
    ELSE IF SubSeq(s, 1, Len(SubPrefix)) = SubPrefix
         THEN Replace(SubSeq(s, Len(SubPrefix) + 1, Len(s)))
         ELSE <<Head(s)>> \o Replace(Tail(s))

\* f"desc-{parc_type}_wholebrainnoddi.csv" under output_dir
OutputPath(parc_type) == <<"desc-", parc_type, "_wholebrainnoddi.csv">>

(***************************************************************************)
(* Inputs.                                                                 *)
(***************************************************************************)
Regions == {"A", "B", "C"}

\* the labels in the order groupby sorts them
Schemes == <<"aparcaseg", "custom">>

RowSet ==
    {[name |-> r, od_mean |-> m[1], icvf_mean |-> m[2], isovf_mean |-> m[3],
      n_vx_masked |-> n] :
        r \in Regions, m \in {<<20, 50, 10>>, <<40, 70, 30>>}, n \in {0, 100, 300}}

Row(r, od, icvf, isovf, n) ==
    [name |-> r, od_mean |-> od, icvf_mean |-> icvf, isovf_mean |-> isovf,
     n_vx_masked |-> n]

Tissue(r, t) == [name |-> r, tissue_type |-> t]

\* reference tables: a one-to-one table, one that lists a region twice, and
\* one that lists a region under two tissue types
TissueTables ==
    {<<Tissue("A", "GM"), Tissue("B", "WM")>>,
     <<Tissue("A", "GM"), Tissue("B", "GM"), Tissue("A", "GM")>>,
     <<Tissue("A", "WM"), Tissue("A", "GM"), Tissue("C", "WM")>>}

ExampleDf == <<Row("A", 20, 50, 10, 100), Row("B", 40, 70, 30, 300)>>

\* the ROI tables of the batch model
TableSet ==
    {[desc |-> "custom", df |-> ExampleDf],
     [desc |-> "aparcaseg", df |-> ExampleDf \o <<Row("C", 40, 70, 30, 100)>>],
     [desc |-> "custom", df |-> <<Row("A", 20, 50, 10, 0)>>]}

\* "sub-1", "1", "2sub-1"
ParticipantIds == {SubPrefix \o <<"1">>, <<"1">>, <<"2">> \o SubPrefix \o <<"1">>}

Subjects == {<<"1">>, <<"2", "1">>}

LayoutFiles == {[subject |-> s, desc |-> t.desc, df |-> t.df] : s \in Subjects, t \in TableSet}

\* noddireg_layout.get(subject=...), lines 91-97
RECURSIVE Get(_, _)
Get(layout, subj) ==
    IF layout = <<>> THEN <<>>
    ELSE (IF Head(layout).subject = subj THEN <<Head(layout)>> ELSE <<>>)
         \o Get(Tail(layout), subj)

(***************************************************************************)
(* The batch: import, main.                                                *)
(***************************************************************************)
Init ==
    /\ template_tsv \in {[readable |-> TRUE, rows |-> t] : t \in TissueTables}
                        \cup {[readable |-> FALSE, rows |-> <<>>]}
    /\ participants_tsv \in
          {[readable |-> TRUE, participant_id |-> r] : r \in SeqsUpTo(ParticipantIds, MaxRoster)}
          \cup {[readable |-> FALSE, participant_id |-> <<>>]}
    /\ noddireg_layout \in SeqsUpTo(LayoutFiles, MaxFiles)
    /\ output_dir = <<>>
    /\ freesurfer_tissue_types = <<>>
    /\ participants_list = <<>>
    /\ idx = 0
    /\ subject = <<>>
    /\ parc_files = <<>>
    /\ wb_noddi_list = <<>>
    /\ all_participant_results = <<>>
    /\ log = <<>>
    /\ groups = <<>>
    /\ pc = "import"
    /\ error = "none"

Raise(e) ==
    /\ pc' = "failed"
    /\ error' = e

\* lines 35-38
Import ==
    /\ pc = "import"
    /\ template_tsv.readable
    /\ freesurfer_tissue_types' = template_tsv.rows
    /\ pc' = "main"
    /\ UNCHANGED <<template_tsv, participants_tsv, noddireg_layout, output_dir,
                   participants_list, idx, subject, parc_files, wb_noddi_list,
                   all_participant_results, log, groups, error>>

ImportFails ==
    /\ pc = "import"
    /\ ~template_tsv.readable
    /\ Raise("template")
    /\ UNCHANGED <<template_tsv, participants_tsv, noddireg_layout, output_dir,
                   freesurfer_tissue_types, participants_list, idx, subject,
                   parc_files, wb_noddi_list, all_participant_results, log, groups>>

\* lines 84-87
ReadRoster ==
    /\ pc = "main"
    /\ participants_tsv.readable
    /\ participants_list' = participants_tsv.participant_id
    /\ pc' = "loop"
    /\ UNCHANGED <<template_tsv, participants_tsv, noddireg_layout, output_dir,
                   freesurfer_tissue_types, idx, subject, parc_files, wb_noddi_list,
                   all_participant_results, log, groups, error>>

ReadRosterFails ==
    /\ pc = "main"
    /\ ~participants_tsv.readable
    /\ Raise("roster")
    /\ UNCHANGED <<template_tsv, participants_tsv, noddireg_layout, output_dir,
                   freesurfer_tissue_types, participants_list, idx, subject,
                   parc_files, wb_noddi_list, all_participant_results, log, groups>>

\* SkipParticipant with the missing data raised instead of skipped: the
\* first participant without files ends the batch
SkipParticipant_Raise ==
    /\ pc = "loop"
    /\ idx < Len(participants_list)
    /\ LET participant == participants_list[idx + 1]
           found == Get(noddireg_layout, Replace(participant))
       IN /\ found = <<>>
          /\ subject' = Replace(participant)
          /\ parc_files' = found
          /\ log' = Append(log, [level |-> "error", participant |-> participant])
    /\ idx' = idx + 1
    /\ Raise("LookupError")
    /\ UNCHANGED <<template_tsv, participants_tsv, noddireg_layout, output_dir,
                   freesurfer_tissue_types, participants_list, wb_noddi_list,
                   all_participant_results, groups>>

\* lines 88-101: an iteration that finds no files
SkipParticipant ==
    /\ pc = "loop"
    /\ idx < Len(participants_list)
    /\ LET participant == participants_list[idx + 1]
           found == Get(noddireg_layout, Replace(participant))
       IN /\ found = <<>>
          /\ subject' = Replace(participant)
          /\ parc_files' = found
          /\ log' = Append(log, [level |-> "error", participant |-> participant])
    /\ idx' = idx + 1
    /\ UNCHANGED <<template_tsv, participants_tsv, noddireg_layout, output_dir,
                   freesurfer_tissue_types, participants_list, wb_noddi_list,
                   all_participant_results, groups, pc, error>>

\* lines 107-109: the dicts get_wholebrain_noddi returned, each with the
\* participant added
WithParticipant(rows, participant) ==
    [i \in 1..Len(rows) |->
        [parcellation |-> rows[i].parcellation, whole_od |-> rows[i].whole_od,
         whole_icvf |-> rows[i].whole_icvf, whole_isovf |-> rows[i].whole_isovf,
         participant_id |-> participant]]

\* AggregateParticipant with the GM filter of lines 50-51 applied to the
\* module's table instead of to a copy
AggregateParticipant_FiltersGlobal ==
    /\ pc = "loop"
    /\ idx < Len(participants_list)
    /\ LET participant == participants_list[idx + 1]
           found == Get(noddireg_layout, Replace(participant))
           rows == WithParticipant(get_wholebrain_noddi(found, freesurfer_tissue_types),
                                   participant)
       IN /\ found # <<>>
          /\ subject' = Replace(participant)
          /\ parc_files' = found
          /\ wb_noddi_list' = rows
          /\ all_participant_results' = all_participant_results \o rows
    /\ freesurfer_tissue_types' =
          IF \E i \in DOMAIN parc_files' : parc_files'[i].desc = "aparcaseg"
          THEN SelectSeq(freesurfer_tissue_types, IsGM)
          ELSE freesurfer_tissue_types
    /\ idx' = idx + 1
    /\ UNCHANGED <<template_tsv, participants_tsv, noddireg_layout, output_dir,
                   participants_list, log, groups, pc, error>>

\* lines 88-109: an iteration that finds files
AggregateParticipant ==
    /\ pc = "loop"
    /\ idx < Len(participants_list)
    /\ LET participant == participants_list[idx + 1]
           found == Get(noddireg_layout, Replace(participant))
           rows == WithParticipant(get_wholebrain_noddi(found, freesurfer_tissue_types),
                                   participant)
       IN /\ found # <<>>
          /\ subject' = Replace(participant)
          /\ parc_files' = found
          /\ wb_noddi_list' = rows
          /\ all_participant_results' = all_participant_results \o rows
    /\ idx' = idx + 1
    /\ UNCHANGED <<template_tsv, participants_tsv, noddireg_layout, output_dir,
                   freesurfer_tissue_types, participants_list, log, groups, pc, error>>

HasScheme(rows, d) == \E i \in 1..Len(rows) : rows[i].parcellation = d

\* lines 112-115: the frame has a "parcellation" column only if it has rows
GroupBy ==
    /\ pc = "loop"
    /\ idx = Len(participants_list)
    /\ all_participant_results # <<>>
    /\ groups' = SelectSeq(Schemes, LAMBDA d : HasScheme(all_participant_results, d))
    /\ pc' = "write"
    /\ UNCHANGED <<template_tsv, participants_tsv, noddireg_layout, output_dir,
                   freesurfer_tissue_types, participants_list, idx, subject,
                   parc_files, wb_noddi_list, all_participant_results, log, error>>

GroupByKeyError ==
    /\ pc = "loop"
    /\ idx = Len(participants_list)
    /\ all_participant_results = <<>>
    /\ Raise("KeyError")
    /\ UNCHANGED <<template_tsv, participants_tsv, noddireg_layout, output_dir,
                   freesurfer_tissue_types, participants_list, idx, subject,
                   parc_files, wb_noddi_list, all_participant_results, log, groups>>

\* GroupRows without the split by parcellation: every group gets every row
GroupRows_All(rows, parc_type) ==
    [i \in 1..Len(rows) |->
        <<rows[i].participant_id, rows[i].whole_od, rows[i].whole_icvf,
          rows[i].whole_isovf>>]

\* lines 118-120: the group's rows, "parcellation" dropped, columns reordered
RECURSIVE GroupRows(_, _)
GroupRows(rows, parc_type) ==
    IF rows = <<>> THEN <<>>
    ELSE (IF Head(rows).parcellation = parc_type
          THEN <<<<Head(rows).participant_id, Head(rows).whole_od,
                   Head(rows).whole_icvf, Head(rows).whole_isovf>>>>
          ELSE <<>>) \o GroupRows(Tail(rows), parc_type)

Csv(rows) ==
    [header |-> <<"participant_id", "whole_od", "whole_icvf", "whole_isovf">>,
     rows |-> rows]

\* lines 115-122: one group written
WriteGroup ==
    /\ pc = "write"
    /\ groups # <<>>
    /\ LET parc_type == Head(groups) IN
          output_dir' = (OutputPath(parc_type) :>
                            Csv(GroupRows(all_participant_results, parc_type)))
                        @@ output_dir
    /\ groups' = Tail(groups)
    /\ pc' = IF Tail(groups) = <<>> THEN "done" ELSE "write"
    /\ UNCHANGED <<template_tsv, participants_tsv, noddireg_layout,
                   freesurfer_tissue_types, participants_list, idx, subject,
                   parc_files, wb_noddi_list, all_participant_results, log, error>>

\* lines 120-122: to_csv cannot open the path
WriteFails ==
    /\ pc = "write"
    /\ groups # <<>>
    /\ Raise("OSError")
    /\ UNCHANGED <<template_tsv, participants_tsv, noddireg_layout, output_dir,
                   freesurfer_tissue_types, participants_list, idx, subject,
                   parc_files, wb_noddi_list, all_participant_results, log, groups>>

Next ==
    \/ Import
    \/ ImportFails
    \/ ReadRoster
    \/ ReadRosterFails
    \/ SkipParticipant
    \/ AggregateParticipant
    \/ GroupBy
    \/ GroupByKeyError
    \/ WriteGroup
    \/ WriteFails

Spec == Init /\ [][Next]_vars

(***************************************************************************)
(* get_wholebrain_noddi on its own: any tables, any reference table.       *)
(***************************************************************************)
InitAgg ==
    /\ template_tsv \in {[readable |-> TRUE, rows |-> t] : t \in TissueTables}
    /\ freesurfer_tissue_types = template_tsv.rows
    /\ parc_files \in {<<[subject |-> <<"1">>, desc |-> Schemes[d], df |-> df]>> :
                          d \in 1..Len(Schemes), df \in SeqsUpTo(RowSet, MaxRows)}
    /\ participants_tsv = [readable |-> TRUE, participant_id |-> <<>>]
    /\ noddireg_layout = parc_files
    /\ output_dir = <<>>
    /\ participants_list = <<>>
    /\ idx = 0
    /\ subject = <<"1">>
    /\ wb_noddi_list = <<>>
    /\ all_participant_results = <<>>
    /\ log = <<>>
    /\ groups = <<>>
    /\ pc = "call"
    /\ error = "none"

\* line 104 alone
CallAggregator ==
    /\ pc = "call"
    /\ wb_noddi_list' = get_wholebrain_noddi(parc_files, freesurfer_tissue_types)
    /\ pc' = "returned"
    /\ UNCHANGED <<template_tsv, participants_tsv, noddireg_layout, output_dir,
                   freesurfer_tissue_types, participants_list, idx, subject,
                   parc_files, all_participant_results, log, groups, error>>

NextAgg == CallAggregator

SpecAgg == InitAgg /\ [][NextAgg]_vars

(***************************************************************************)
(* Properties.                                                             *)
(***************************************************************************)
Range(f) == {f[i] : i \in DOMAIN f}

Started == pc \notin {"import", "main", "call", "returned"}

\* the tables the loop passed to get_wholebrain_noddi for roster entry k
TablesOf(k) == Get(noddireg_layout, Replace(participants_list[k]))

\* sum of col * n_vx_masked over rows 1..k of df, col = "one" for the plain
\* voxel count
RECURSIVE SumUpTo(_, _, _)
SumUpTo(df, col, k) ==
    IF k = 0 THEN 0
    ELSE (IF col = "one" THEN 1 ELSE df[k][col]) * df[k].n_vx_masked
         + SumUpTo(df, col, k - 1)

IsNumber(v) == v.den # 0

ZeroWeight(f) ==
    SumUpTo(Retained(f.desc, f.df, freesurfer_tissue_types), "one",
            Len(Retained(f.desc, f.df, freesurfer_tissue_types))) = 0

\* C1: a table whose retained rows weigh 0 in total puts no row for its
\* (participant, scheme) pair into any output table, and no output row holds
\* a NaN or infinite metric.
C1_ZeroWeightYieldsNoRow ==
    /\ \A p \in DOMAIN output_dir : \A i \in 1..Len(output_dir[p].rows) :
          /\ IsNumber(output_dir[p].rows[i][2])
          /\ IsNumber(output_dir[p].rows[i][3])
          /\ IsNumber(output_dir[p].rows[i][4])
    /\ Started =>
          \A k \in 1..idx : \A f \in Range(TablesOf(k)) :
             ZeroWeight(f) /\ OutputPath(f.desc) \in DOMAIN output_dir =>
                \A i \in 1..Len(output_dir[OutputPath(f.desc)].rows) :
                   output_dir[OutputPath(f.desc)].rows[i][1] # participants_list[k]

HasRow(participant) ==
    \E j \in 1..Len(all_participant_results) :
       all_participant_results[j].participant_id = participant

\* C2: a participant without ROI tables is logged and gets no row under any
\* scheme, and the loop goes on: every processed participant with tables has
\* rows, and the loop is left only after the whole roster.
C2_MissingDataIsolated ==
    Started =>
       /\ \A k \in 1..idx :
             IF TablesOf(k) = <<>>
             THEN /\ [level |-> "error", participant |-> participants_list[k]] \in Range(log)
                  /\ ~HasRow(participants_list[k])
             ELSE HasRow(participants_list[k])
       /\ pc # "loop" => idx = Len(participants_list)

C2_Witness ==
    /\ pc = "done"
    /\ Len(participants_list) = 2
    /\ TablesOf(1) = <<>>
    /\ Len(log) = 1
    /\ HasRow(participants_list[2])

\* C3: with a readable roster and reference table (and a writable output
\* directory) main ends normally, whatever the participants' errors.
C3_ExitsZero ==
    pc = "failed" => error \in {"template", "roster", "OSError"}

GMNames(tissue_types) ==
    {tissue_types[i].name : i \in {j \in DOMAIN tissue_types : tissue_types[j].tissue_type = "GM"}}

\* the input rows the claim lets contribute, each once
Contributing(f, tissue_types) ==
    IF f.desc = "aparcaseg"
    THEN SelectSeq(f.df, LAMBDA r : r.name \in GMNames(tissue_types))
    ELSE f.df

SameSums(a, b) ==
    \A col \in {"one", "od_mean", "icvf_mean", "isovf_mean"} :
       SumUpTo(a, col, Len(a)) = SumUpTo(b, col, Len(b))

\* C4: total_vx and the three weighted sums are taken over exactly the input
\* rows mapped to "GM" (aparcaseg), each once, or over all rows (other schemes).
C4_ContributingRows ==
    pc = "returned" =>
       \A i \in 1..Len(parc_files) :
          SameSums(Retained(parc_files[i].desc, parc_files[i].df, freesurfer_tissue_types),
                   Contributing(parc_files[i], freesurfer_tissue_types))

IsQuotient(q, a, b) == q.den > 0 /\ q.num * b = q.den * a

\* C5: with positive total weight each emitted metric is the sum of
\* mean * n_vx_masked over the retained rows divided by the sum of n_vx_masked,
\* each from its own column, and the row carries the table's scheme label.
C5_WeightedMean ==
    pc = "returned" =>
       /\ Len(wb_noddi_list) = Len(parc_files)
       /\ \A i \in 1..Len(parc_files) :
             LET kept == Retained(parc_files[i].desc, parc_files[i].df,
                                  freesurfer_tissue_types)
                 total == SumUpTo(kept, "one", Len(kept))
                 row == wb_noddi_list[i]
             IN Len(kept) >= 1 /\ total > 0 =>
                   /\ row.parcellation = parc_files[i].desc
                   /\ IsQuotient(row.whole_od, SumUpTo(kept, "od_mean", Len(kept)), total)
                   /\ IsQuotient(row.whole_icvf, SumUpTo(kept, "icvf_mean", Len(kept)), total)
                   /\ IsQuotient(row.whole_isovf, SumUpTo(kept, "isovf_mean", Len(kept)), total)

C5_Witness ==
    /\ pc = "returned"
    /\ parc_files[1].desc = "custom"
    /\ parc_files[1].df = ExampleDf
    /\ wb_noddi_list[1] = [parcellation |-> "custom",
                           whole_od |-> [num |-> 35, den |-> 1],
                           whole_icvf |-> [num |-> 65, den |-> 1],
                           whole_isovf |-> [num |-> 25, den |-> 1]]

LabelsPresent == {all_participant_results[i].parcellation : i \in DOMAIN all_participant_results}

ExpectedRows(d) ==
    LET sel == SelectSeq(all_participant_results, LAMBDA r : r.parcellation = d)
    IN [i \in 1..Len(sel) |->
           <<sel[i].participant_id, sel[i].whole_od, sel[i].whole_icvf, sel[i].whole_isovf>>]

\* C6: a finished run has written one table per scheme label among the
\* accumulated rows, at desc-<scheme>_wholebrainnoddi.csv, holding all and only
\* that scheme's rows, as participant_id, whole_od, whole_icvf, whole_isovf,
\* with the roster's identifiers.
C6_OneTablePerScheme ==
    pc = "done" =>
       /\ DOMAIN output_dir = {OutputPath(d) : d \in LabelsPresent}
       /\ \A d \in LabelsPresent :
             /\ output_dir[OutputPath(d)].header =
                   <<"participant_id", "whole_od", "whole_icvf", "whole_isovf">>
             /\ output_dir[OutputPath(d)].rows = ExpectedRows(d)
             /\ \A i \in 1..Len(output_dir[OutputPath(d)].rows) :
                   output_dir[OutputPath(d)].rows[i][1] \in Range(participants_list)

C6_Witness ==
    /\ pc = "done"
    /\ Cardinality(DOMAIN output_dir) = 2
    /\ \E p \in DOMAIN output_dir : Len(output_dir[p].rows) >= 2
    /\ \E p \in DOMAIN output_dir : \E i \in 1..Len(output_dir[p].rows) :
          output_dir[p].rows[i][1] = SubPrefix \o <<"1">>

\* C7: in every output table a participant identifier is on at most one row.
C7_OneRowPerParticipant ==
    \A p \in DOMAIN output_dir :
       \A i, j \in 1..Len(output_dir[p].rows) :
          i # j => output_dir[p].rows[i][1] # output_dir[p].rows[j][1]

\* C8: a run that a configuration error ended has written no output table.
C8_NoOutputBeforeAbort ==
    pc = "failed" /\ error \in {"template", "roster", "OSError"} =>
       DOMAIN output_dir = {}

\* the rows as get_wholebrain_noddi returned them
Returned(rows) ==
    [i \in 1..Len(rows) |->
        [parcellation |-> rows[i].parcellation, whole_od |-> rows[i].whole_od,
         whole_icvf |-> rows[i].whole_icvf, whole_isovf |-> rows[i].whole_isovf]]

\* C9: no step changes the input tables or, once loaded, the tissue-type
\* lookup, and a call on the tables of the call before returns the same rows.
C9_Pure ==
    [][/\ noddireg_layout' = noddireg_layout
       /\ template_tsv' = template_tsv
       /\ pc # "import" => freesurfer_tissue_types' = freesurfer_tissue_types
       /\ pc' # "import" /\ pc' # "failed" => freesurfer_tissue_types' = template_tsv.rows
       /\ (idx' = idx + 1 /\ parc_files # <<>> /\ parc_files' = parc_files)
             => Returned(wb_noddi_list') = Returned(wb_noddi_list)]_vars

C9_Witness ==
    /\ pc = "loop"
    /\ idx = 2
    /\ parc_files # <<>>
    /\ Replace(participants_list[1]) = Replace(participants_list[2])
    /\ \E i \in DOMAIN freesurfer_tissue_types : freesurfer_tissue_types[i].tissue_type # "GM"
    /\ \E i \in DOMAIN parc_files : parc_files[i].desc = "aparcaseg"

\* the identifier without its leading "sub-"
RemovePrefix(s) ==
    IF Len(s) >= Len(SubPrefix) /\ SubSeq(s, 1, Len(SubPrefix)) = SubPrefix
    THEN SubSeq(s, Len(SubPrefix) + 1, Len(s))
    ELSE s

\* C10: the lookup key is the identifier less its leading "sub-" and nothing
\* else, and the accumulated rows carry the identifier as the roster has it.
C10_LookupKey ==
    Started /\ idx >= 1 =>
       /\ subject = RemovePrefix(participants_list[idx])
       /\ parc_files # <<>> =>
             \A i \in 1..Len(wb_noddi_list) :
                wb_noddi_list[i].participant_id = participants_list[idx]

====
